---- MODULE Spec2Model ----
(***************************************************************************)
(* Support assistant (app.py): FAQ matcher, upload parser, session         *)
(* knowledge base and the routing of a submitted question.                 *)
(*                                                                         *)
(* A Python str is a sequence of one-character strings, so that lower(),   *)
(* strip(), split(), startswith(), slicing and the `in` test are computed  *)
(* character by character.  A float score n/d is the reduced fraction      *)
(* <<n, d>>; the scores of this program have small numerators and          *)
(* denominators, for which float comparison agrees with the comparison of  *)
(* the fractions.                                                          *)
(***************************************************************************)
EXTENDS Integers, Sequences, FiniteSets, TLC

VARIABLES
    \* st.session_state and the run of the script
    faq_list,       \* st.session_state["faq_list"]
    submitted_q,    \* <<>> when the key is absent, <<text>> when present
    pc,             \* position of the submission processing of the last run
    q,              \* the stripped query of the run (line 183)
    best_answer,    \* faq_match result, answer part
    score,          \* faq_match result, score part
    context_text,   \* the context built for the LLM (line 189)
    llm_ans,        \* text returned by call_openai_system
    calls,          \* calls of call_openai_system made by the run
    call_args,      \* <<question, context_faq>> of each call, in order
    call_outcome,   \* how the last call ended: "ok", "nokey", "raised" or "none"
    banner,         \* "success" (line 192), "info" (line 195) or "none"
    displayed,      \* <<>> or <<text>>: the text given to st.write
    escalate,       \* the escalation warning was shown (lines 199-200)
    load_msg,       \* "success" (line 138), "error" (line 140) or "none"
    \* the upload parser, line by line
    raw,            \* the uploaded text
    lines,          \* raw.splitlines()
    k,              \* number of lines consumed
    pairs, cur_q, cur_a, mode,
    q_at, a_at,     \* line number of the Q: / A: line that last set cur_q / cur_a
    prov,           \* for each emitted pair, <<q_at, a_at>> at the time it was emitted
    entries         \* the entries raw was serialized from (<<>> for a free text)

vars == <<faq_list, submitted_q, pc, q, best_answer, score, context_text, llm_ans,
          calls, call_args, call_outcome, banner, displayed, escalate, load_msg,
          raw, lines, k, pairs, cur_q, cur_a, mode, q_at, a_at, prov, entries>>

routeVars == <<pc, q, best_answer, score, context_text, llm_ans, calls, call_args,
               call_outcome, banner, displayed, escalate>>

sessionVars == <<faq_list, submitted_q, load_msg>>

parserVars == <<raw, lines, k, pairs, cur_q, cur_a, mode, q_at, a_at, prov, entries>>

----------------------------------------------------------------------------
(* Python str operations *)

UpperCase ==
    <<"A", "B", "C", "D", "E", "F", "G", "H", "I", "J", "K", "L", "M", "N", "O", "P", "Q", "R", "S", "T", "U", "V", "W", "X", "Y", "Z">>

LowerCase ==
    <<"a", "b", "c", "d", "e", "f", "g", "h", "i", "j", "k", "l", "m", "n", "o", "p", "q", "r", "s", "t", "u", "v", "w", "x", "y", "z">>

Whitespace ==
    {" ", "\n", "\t"}

LineBreaks ==
    {"\n"}

ToLower ==
    [c \in {UpperCase[i] : i \in 1..26} |-> LowerCase[CHOOSE i \in 1..26 : UpperCase[i] = c]]

lower_char(c) ==
    IF c \in DOMAIN ToLower THEN ToLower[c] ELSE c

\* s.lower()
lower(s) ==
    [i \in 1..Len(s) |-> lower_char(s[i])]

\* the first index from i upwards (the last from i downwards) that holds no whitespace
RECURSIVE first_ink(_, _)
first_ink(s, i) ==
    IF i > Len(s) \/ s[i] \notin Whitespace THEN i ELSE first_ink(s, i + 1)

RECURSIVE last_ink(_, _)
last_ink(s, i) ==
    IF i < 1 \/ s[i] \notin Whitespace THEN i ELSE last_ink(s, i - 1)

\* s.strip()
strip(s) ==
    IF first_ink(s, 1) > Len(s) THEN <<>>
    ELSE SubSeq(s, first_ink(s, 1), last_ink(s, Len(s)))

\* sub in s
contains(sub, s) ==
    \E i \in 0..(Len(s) - Len(sub)) : SubSeq(s, i + 1, i + Len(sub)) = sub

\* s.startswith(prefix)
startswith(s, prefix) ==
    Len(s) >= Len(prefix) /\ SubSeq(s, 1, Len(prefix)) = prefix

\* s[n:]
slice_from(s, n) ==
    SubSeq(s, n + 1, Len(s))

\* the last index of the run of non-whitespace characters that holds i
RECURSIVE run_end(_, _)
run_end(s, i) ==
    IF i = Len(s) \/ s[i + 1] \in Whitespace THEN i ELSE run_end(s, i + 1)

\* set(s.split()): the maximal runs of non-whitespace characters
tokens(s) ==
    LET starts == {i \in 1..Len(s) :
                      s[i] \notin Whitespace /\ (i = 1 \/ s[i - 1] \in Whitespace)}
    IN  {SubSeq(s, i, run_end(s, i)) : i \in starts}

\* the first index from i upwards that holds a line break (Len(s) + 1 when none)
RECURSIVE first_break(_, _)
first_break(s, i) ==
    IF i > Len(s) \/ s[i] \in LineBreaks THEN i ELSE first_break(s, i + 1)

\* s.splitlines()
RECURSIVE splitlines(_)
splitlines(s) ==
    IF s = <<>> THEN <<>>
    ELSE <<SubSeq(s, 1, first_break(s, 1) - 1)>> \o splitlines(slice_from(s, first_break(s, 1)))

\* sep.join(parts)
RECURSIVE join(_, _)
join(sep, parts) ==
    IF parts = <<>> THEN <<>>
    ELSE IF Len(parts) = 1 THEN parts[1]
    ELSE parts[1] \o sep \o join(sep, Tail(parts))

\* parts[:n]
take(parts, n) ==
    SubSeq(parts, 1, IF Len(parts) < n THEN Len(parts) ELSE n)

----------------------------------------------------------------------------
(* float scores *)

RECURSIVE gcd(_, _)
gcd(a, b) ==
    IF b = 0 THEN a ELSE gcd(b, a % b)

\* n / d
frac(n, d) ==
    <<n \div gcd(n, d), d \div gcd(n, d)>>

score_gt(a, b) ==
    a[1] * b[2] > b[1] * a[2]

score_ge(a, b) ==
    a[1] * b[2] >= b[1] * a[2]

SubstringScore ==
    <<99, 100>>

ZeroScore ==
    <<0, 1>>

Threshold ==
    <<6, 10>>

ContextLimit ==
    10

----------------------------------------------------------------------------
(* load_faq_items, faq_match, should_escalate, call_openai_system *)

load_faq_items ==
    << <<<<"W", "h", "a", "t", " ", "a", "r", "e", " ", "t", "h", "e", " ", "o", "f", "f", "i", "c", "e", " ", "w", "o", "r", "k", "i", "n", "g", " ", "h", "o", "u", "r", "s", "?">>,
         <<"O", "f", "f", "i", "c", "e", " ", "h", "o", "u", "r", "s", " ", "a", "r", "e", " ", "9", ":", "3", "0", " ", "A", "M", " ", "-", " ", "6", ":", "3", "0", " ", "P", "M", ",", " ", "M", "o", "n", "d", "a", "y", " ", "t", "o", " ", "F", "r", "i", "d", "a", "y", ".">>>>,
       <<<<"H", "o", "w", " ", "t", "o", " ", "c", "o", "n", "t", "a", "c", "t", " ", "I", "T", " ", "s", "u", "p", "p", "o", "r", "t", "?">>,
         <<"E", "m", "a", "i", "l", " ", "I", "T", " ", "a", "t", " ", "i", "t", "-", "s", "u", "p", "p", "o", "r", "t", "@", "e", "x", "a", "m", "p", "l", "e", ".", "c", "o", "m", " ", "o", "r", " ", "c", "a", "l", "l", " ", "e", "x", "t", ".", " ", "1", "2", "3", "4", ".">>>>,
       <<<<"H", "o", "w", " ", "t", "o", " ", "a", "p", "p", "l", "y", " ", "f", "o", "r", " ", "l", "e", "a", "v", "e", "?">>,
         <<"U", "s", "e", " ", "t", "h", "e", " ", "H", "R", " ", "p", "o", "r", "t", "a", "l", " ", "-", ">", " ", "L", "e", "a", "v", "e", " ", "R", "e", "q", "u", "e", "s", "t", ".", " ", "C", "o", "n", "t", "a", "c", "t", " ", "h", "r", "@", "e", "x", "a", "m", "p", "l", "e", ".", "c", "o", "m", " ", "f", "o", "r", " ", "u", "r", "g", "e", "n", "t", " ", "h", "e", "l", "p", ".">>>> >>

\* the overlap taken over the union of the two token sets
overlap_score_union(qn, fq_l) ==
    IF Cardinality(tokens(qn)) = 0 THEN <<0, 1>>
    ELSE <<Cardinality(tokens(qn) \cup tokens(fq_l)), Cardinality(tokens(qn))>>

\* lines 45-50: the token overlap of the query with one FAQ question
overlap_score(qn, fq_l) ==
    LET q_tokens == tokens(qn)
        fq_tokens == tokens(fq_l)
    IN  IF Cardinality(q_tokens) = 0 THEN ZeroScore
        ELSE frac(Cardinality(q_tokens \cap fq_tokens), Cardinality(q_tokens))

\* line 42: the exact/substring quick check
quick_check(qn, fq_l) ==
    contains(qn, fq_l) \/ contains(fq_l, qn)

\* the loop without the early return: a later substring match replaces an earlier one
RECURSIVE faq_scan_last(_, _, _, _)
faq_scan_last(qn, faqs, i, best) ==
    IF i > Len(faqs) THEN best
    ELSE LET fq_l == lower(faqs[i][1])
             fa == faqs[i][2]
             sc == IF contains(qn, fq_l) \/ contains(fq_l, qn)
                   THEN <<99, 100>>
                   ELSE IF Cardinality(tokens(qn)) = 0 THEN <<0, 1>>
                   ELSE <<Cardinality(tokens(qn) \cap tokens(fq_l)), Cardinality(tokens(qn))>>
         IN  faq_scan_last(qn, faqs, i + 1,
                           IF sc[1] * best.score[2] >= best.score[1] * sc[2] /\ sc[1] > 0
                           THEN [answer |-> fa, score |-> sc]
                           ELSE best)

\* lines 39-54: the loop over faqs from entry i on, with the running best
RECURSIVE faq_scan(_, _, _, _)
faq_scan(qn, faqs, i, best) ==
    IF i > Len(faqs) THEN best
    ELSE LET fq_l == lower(faqs[i][1])
             fa == faqs[i][2]
             sc == overlap_score(qn, fq_l)
         IN  IF quick_check(qn, fq_l)
             THEN [answer |-> fa, score |-> SubstringScore]
             ELSE faq_scan(qn, faqs, i + 1,
                           IF score_gt(sc, best.score)
                           THEN [answer |-> fa, score |-> sc]
                           ELSE best)

faq_match(question, faqs) ==
    faq_scan(strip(lower(question)), faqs, 1, [answer |-> <<>>, score |-> ZeroScore])

q_kw ==
    {<<"b", "r", "o", "k", "e", "n">>, <<"n", "o", "t", " ", "w", "o", "r", "k", "i", "n", "g">>, <<"u", "r", "g", "e", "n", "t">>, <<"c", "a", "n", "'", "t">>, <<"c", "a", "n", "n", "o", "t">>, <<"f", "a", "i", "l", "e", "d">>, <<"e", "r", "r", "o", "r">>}

a_kw ==
    {<<"i", "'", "m", " ", "n", "o", "t", " ", "s", "u", "r", "e">>, <<"i", " ", "d", "o", " ", "n", "o", "t", " ", "k", "n", "o", "w">>, <<"i", " ", "m", "a", "y", " ", "b", "e", " ", "w", "r", "o", "n", "g">>, <<"p", "l", "e", "a", "s", "e", " ", "c", "o", "n", "t", "a", "c", "t">>, <<"e", "s", "c", "a", "l", "a", "t", "e">>}

\* the keyword check without lowercasing the question
should_escalate_cased(question, answer) ==
    IF \E w \in q_kw : contains(w, question) THEN TRUE
    ELSE IF \E w \in a_kw : contains(w, lower(answer)) THEN TRUE
    ELSE FALSE

should_escalate(question, answer) ==
    IF \E w \in q_kw : contains(w, lower(question)) THEN TRUE
    ELSE IF \E w \in a_kw : contains(w, lower(answer)) THEN TRUE
    ELSE FALSE

NoKeyMessage ==
    <<"E", "R", "R", "O", "R", ":", " ", "O", "p", "e", "n", "A", "I", " ", "A", "P", "I", " ", "k", "e", "y", " ", "n", "o", "t", " ", "f", "o", "u", "n", "d", ".", " ", "S", "e", "t", " ", "O", "P", "E", "N", "A", "I", "_", "A", "P", "I", "_", "K", "E", "Y", " ", "i", "n", " ", "S", "t", "r", "e", "a", "m", "l", "i", "t", " ", "S", "e", "c", "r", "e", "t", "s", " ", "o", "r", " ", "e", "n", "v", ".">>

CallFailedPrefix ==
    <<"E", "R", "R", "O", "R", ":", " ", "O", "p", "e", "n", "A", "I", " ", "A", "P", "I", " ", "c", "a", "l", "l", " ", "f", "a", "i", "l", "e", "d", ":", " ">>

\* a call that hands the service's failure text back as it is
call_openai_system_raw(question, context_faq, api_key, reply) ==
    IF api_key = <<>> THEN NoKeyMessage
    ELSE IF reply.raises THEN reply.text
    ELSE strip(reply.text)

\* api_key: the key found in the secrets or the environment ("" when none);
\* reply: what ChatCompletion.create does, [raises |-> BOOLEAN, text |-> str]
call_openai_system(question, context_faq, api_key, reply) ==
    IF api_key = <<>> THEN NoKeyMessage
    ELSE IF reply.raises THEN CallFailedPrefix \o reply.text
    ELSE strip(reply.text)

\* line 189, for any list of entries
serialize(faqs) ==
    join(<<"\n">>, [i \in 1..Len(faqs) |-> <<"Q", ":", " ">> \o faqs[i][1] \o <<"\n", "A", ":", " ">> \o faqs[i][2]])

\* the context without the slice to the first entries
build_context_all(faqs) ==
    serialize(faqs)

build_context(faqs) ==
    serialize(take(faqs, ContextLimit))

----------------------------------------------------------------------------
(* the upload parser, lines 114-135 *)

ParserStart ==
    [pairs |-> <<>>, cur_q |-> <<>>, cur_a |-> <<>>, mode |-> "None"]

is_q_line(ln) ==
    startswith(lower(strip(ln)), <<"q", ":">>)

is_a_line(ln) ==
    ~is_q_line(ln) /\ startswith(lower(strip(ln)), <<"a", ":">>)

\* lines 119-133: one iteration of the loop, for the line ln0
parse_line(st, ln0) ==
    LET ln == strip(ln0)
    IN  IF is_q_line(ln0)
        THEN [pairs |-> IF st.cur_q # <<>> /\ st.cur_a # <<>>
                        THEN Append(st.pairs, <<st.cur_q, st.cur_a>>)
                        ELSE st.pairs,
              cur_q |-> strip(slice_from(ln, 2)),
              cur_a |-> IF st.cur_q # <<>> /\ st.cur_a # <<>> THEN <<>> ELSE st.cur_a,
              mode |-> "q"]
        ELSE IF is_a_line(ln0)
        THEN [st EXCEPT !.cur_a = strip(slice_from(ln, 2)), !.mode = "a"]
        ELSE IF st.mode = "q" THEN [st EXCEPT !.cur_q = st.cur_q \o <<" ">> \o ln]
        ELSE IF st.mode = "a" THEN [st EXCEPT !.cur_a = st.cur_a \o <<" ">> \o ln]
        ELSE st

\* the end of the loop without the final flush
parse_end_noflush(st) ==
    st.pairs

\* lines 134-135: the flush after the loop
parse_end(st) ==
    IF st.cur_q # <<>> /\ st.cur_a # <<>>
    THEN Append(st.pairs, <<st.cur_q, st.cur_a>>)
    ELSE st.pairs

RECURSIVE parse_from(_, _)
parse_from(st, lns) ==
    IF lns = <<>> THEN parse_end(st)
    ELSE parse_from(parse_line(st, Head(lns)), Tail(lns))

\* lines 114-135: the pairs parsed from an uploaded text
parse(text) ==
    parse_from(ParserStart, splitlines(text))

----------------------------------------------------------------------------
(* bounds and input sets *)

MaxRows ==
    12

MaxEditRow ==
    1

MaxFaqs ==
    2

MaxLines ==
    3

MaxEntries ==
    2

\* sequences of length 1..n over S
SeqsUpTo(S, n) ==
    UNION {[1..m -> S] : m \in 1..n}

Test1Query ==
    <<"W", "h", "a", "t", " ", "a", "r", "e", " ", "t", "h", "e", " ", "o", "f", "f", "i", "c", "e", " ", "w", "o", "r", "k", "i", "n", "g", " ", "h", "o", "u", "r", "s", "?">>

Test2Query ==
    <<"M", "y", " ", "c", "o", "m", "p", "u", "t", "e", "r", " ", "i", "s", " ", "b", "r", "o", "k", "e", "n", " ", "w", "h", "a", "t", " ", "s", "h", "o", "u", "l", "d", " ", "I", " ", "d", "o", "?">>

UserQueries ==
    {<<" ", " ">>, <<" ", "U", "R", "G", "E", "N", "T", ":", " ", "p", "r", "i", "n", "t", "e", "r", " ", "j", "a", "m", " ">>, <<"p", "r", "i", "n", "t", "e", "r", " ", "j", "a", "m">>, <<"p", "a", "p", "e", "r", " ", "t", "r", "a", "y">>}

EditQuestions ==
    {<<"P", "r", "i", "n", "t", "e", "r", " ", "j", "a", "m", " ">>}

EditAnswers ==
    {<<"O", "p", "e", "n", " ", "t", "h", "e", " ", "t", "r", "a", "y", ".">>}

LoadTexts ==
    {<<"Q", ":", " ", "n", "o", " ", "a", "n", "s", "w", "e", "r", " ", "h", "e", "r", "e">>, <<"Q", ":", " ", "U", "r", "g", "e", "n", "t", " ", "h", "e", "l", "p", "\n", "\n", "A", ":", " ", "C", "a", "l", "l", " ", "9", "1", "1">>}

ApiKeys ==
    {<<>>, <<"s", "k">>}

Replies ==
    {[raises |-> FALSE, text |-> <<" ", "P", "l", "e", "a", "s", "e", " ", "c", "o", "n", "t", "a", "c", "t", " ", "I", "T", ".", " ">>],
     [raises |-> FALSE, text |-> <<"R", "e", "b", "o", "o", "t", " ", "i", "t", ".">>],
     [raises |-> TRUE, text |-> <<"t", "i", "m", "e", "o", "u", "t">>]}

----------------------------------------------------------------------------
(* one run of the script per user action, then the processing of the
   submission in steps *)

NoRoute ==
    /\ q = <<>>
    /\ best_answer = <<>>
    /\ score = ZeroScore
    /\ context_text = <<>>
    /\ llm_ans = <<>>
    /\ calls = 0
    /\ call_args = <<>>
    /\ call_outcome = "none"
    /\ banner = "none"
    /\ displayed = <<>>
    /\ escalate = FALSE

NoParser ==
    /\ raw = <<>>
    /\ lines = <<>>
    /\ k = 0
    /\ pairs = <<>>
    /\ cur_q = <<>>
    /\ cur_a = <<>>
    /\ mode = "None"
    /\ q_at = 0
    /\ a_at = 0
    /\ prov = <<>>
    /\ entries = <<>>

Init ==
    /\ faq_list = load_faq_items
    /\ submitted_q = <<>>
    /\ load_msg = "none"
    /\ pc = "idle"
    /\ NoRoute
    /\ NoParser

\* the script runs again only when the previous run has ended
Ready ==
    pc \in {"idle", "DONE"}

\* line 182: a submission is present and not blank
has_submission(sub) ==
    sub # <<>> /\ strip(sub[1]) # <<>>

\* lines 182, 201-202: the page is drawn afresh; the submission is processed or not
BeginRun(sub) ==
    /\ pc' = IF has_submission(sub) THEN "START" ELSE "idle"
    /\ q' = <<>>
    /\ best_answer' = <<>>
    /\ score' = ZeroScore
    /\ context_text' = <<>>
    /\ llm_ans' = <<>>
    /\ calls' = 0
    /\ call_args' = <<>>
    /\ call_outcome' = "none"
    /\ banner' = "none"
    /\ displayed' = <<>>
    /\ escalate' = FALSE

\* a load that stores whatever was parsed
commit_load_always(old, ps) ==
    ps

\* lines 136-140: the knowledge base after a load that parsed ps
commit_load(old, ps) ==
    IF ps # <<>> THEN ps ELSE old

\* lines 112-140
LoadUploaded(text) ==
    /\ Ready
    /\ faq_list' = commit_load(faq_list, parse(text))
    /\ load_msg' = IF parse(text) # <<>> THEN "success" ELSE "error"
    /\ UNCHANGED submitted_q
    /\ BeginRun(submitted_q)
    /\ UNCHANGED parserVars

\* lines 153-156: the widgets of row i hold new_q and new_a
Edit(i, new_q, new_a) ==
    /\ Ready
    /\ i \in 1..Len(faq_list)
    /\ i <= MaxEditRow
    /\ <<new_q, new_a>> # faq_list[i]
    /\ faq_list' = [faq_list EXCEPT ![i] = <<new_q, new_a>>]
    /\ load_msg' = "none"
    /\ UNCHANGED submitted_q
    /\ BeginRun(submitted_q)
    /\ UNCHANGED parserVars

\* lines 157-158
AddRow ==
    /\ Ready
    /\ Len(faq_list) < MaxRows
    /\ faq_list' = Append(faq_list, <<<<"N", "e", "w", " ", "q", "u", "e", "s", "t", "i", "o", "n">>, <<"N", "e", "w", " ", "a", "n", "s", "w", "e", "r">>>>)
    /\ load_msg' = "none"
    /\ UNCHANGED submitted_q
    /\ BeginRun(submitted_q)
    /\ UNCHANGED parserVars

\* lines 168-169, 175-176, 178-179
Submit(user_q) ==
    /\ Ready
    /\ submitted_q' = <<user_q>>
    /\ load_msg' = "none"
    /\ UNCHANGED faq_list
    /\ BeginRun(submitted_q')
    /\ UNCHANGED parserVars

\* line 162: the name changes, the script runs again
Rerun ==
    /\ Ready
    /\ load_msg' = "none"
    /\ UNCHANGED <<faq_list, submitted_q>>
    /\ BeginRun(submitted_q)
    /\ UNCHANGED parserVars

\* a gate that only lets a perfect score through
confident_high(sc) ==
    score_ge(sc, <<1, 1>>)

\* line 190
confident(sc) ==
    score_ge(sc, Threshold)

\* lines 183-190
RouteStart ==
    /\ pc = "START"
    /\ q' = strip(submitted_q[1])
    /\ best_answer' = faq_match(strip(submitted_q[1]), faq_list).answer
    /\ score' = faq_match(strip(submitted_q[1]), faq_list).score
    /\ context_text' = build_context(faq_list)
    /\ pc' = IF confident(score') THEN "FAST_ANSWER" ELSE "GENERATE"
    /\ UNCHANGED <<llm_ans, calls, call_args, call_outcome, banner, displayed, escalate>>
    /\ UNCHANGED sessionVars
    /\ UNCHANGED parserVars

\* lines 191-193
FastAnswer ==
    /\ pc = "FAST_ANSWER"
    /\ banner' = "success"
    /\ displayed' = <<best_answer>>
    /\ pc' = "DONE"
    /\ UNCHANGED <<q, best_answer, score, context_text, llm_ans, calls, call_args,
                   call_outcome, escalate>>
    /\ UNCHANGED sessionVars
    /\ UNCHANGED parserVars

\* lines 195-200
Generate(api_key, reply) ==
    /\ pc = "GENERATE"
    /\ banner' = "info"
    /\ calls' = calls + 1
    /\ call_args' = Append(call_args, <<q, context_text>>)
    /\ call_outcome' = IF api_key = <<>> THEN "nokey"
                       ELSE IF reply.raises THEN "raised" ELSE "ok"
    /\ llm_ans' = call_openai_system(q, context_text, api_key, reply)
    /\ displayed' = <<llm_ans'>>
    /\ escalate' = should_escalate(q, llm_ans')
    /\ pc' = "DONE"
    /\ UNCHANGED <<q, best_answer, score, context_text>>
    /\ UNCHANGED sessionVars
    /\ UNCHANGED parserVars

RouteStep ==
    \/ RouteStart
    \/ FastAnswer
    \/ \E api_key \in ApiKeys, reply \in Replies : Generate(api_key, reply)

Next ==
    \/ \E text \in LoadTexts : LoadUploaded(text)
    \/ \E i \in 1..Len(faq_list) :
          \E new_q \in EditQuestions \cup {faq_list[i][1]},
             new_a \in EditAnswers \cup {faq_list[i][2]} : Edit(i, new_q, new_a)
    \/ AddRow
    \/ \E user_q \in UserQueries \cup {Test1Query, Test2Query} : Submit(user_q)
    \/ Rerun
    \/ RouteStep

Spec ==
    Init /\ [][Next]_vars

\* a step of the processing of the submission, seen on pc alone: RouteStep is
\* enabled exactly when pc is START, FAST_ANSWER or GENERATE, and the steps of
\* RouteStep are the steps of Spec that change pc from one of these
RouteProgress ==
    /\ pc \in {"START", "FAST_ANSWER", "GENERATE"}
    /\ pc' \in {"FAST_ANSWER", "GENERATE", "DONE"}
    /\ pc' # pc

\* the script runs to its end once started: the steps of a run are not user
\* actions, and the call of the service returns or raises
FairSpec ==
    Spec /\ WF_pc(RouteProgress)

\* the source of the displayed answer: lines 192-193, 195-197, and the "ERROR:" prefix
Source ==
    IF banner = "success" THEN "FAQ"
    ELSE IF banner = "info"
    THEN (IF startswith(llm_ans, <<"E", "R", "R", "O", "R", ":">>) THEN "ERROR" ELSE "GENERATED")
    ELSE "none"

----------------------------------------------------------------------------
(* faq_match on its own: the question and the FAQ list are drawn from small
   sets, one step applies the matcher *)

FaqQuestions ==
    {<<"a", " ", "b">>, <<"b", " ", "a">>, <<" ", "A", " ">>, <<"c">>}

FaqAnswers ==
    {<<"x">>, <<"y">>}

MatchQueries ==
    FaqQuestions \cup {<<>>, <<"a", " ", "b", " ", "c">>, <<"B", " ", " ", "a">>}

MatchInit ==
    /\ faq_list \in {<<>>} \cup SeqsUpTo(FaqQuestions \X FaqAnswers, MaxFaqs)
    /\ submitted_q \in {<<mq>> : mq \in MatchQueries}
    /\ load_msg = "none"
    /\ pc = "MATCH"
    /\ NoRoute
    /\ NoParser

\* line 187, for the question as given
Match ==
    /\ pc = "MATCH"
    /\ best_answer' = faq_match(submitted_q[1], faq_list).answer
    /\ score' = faq_match(submitted_q[1], faq_list).score
    /\ pc' = "MATCHED"
    /\ UNCHANGED <<q, context_text, llm_ans, calls, call_args, call_outcome, banner,
                   displayed, escalate>>
    /\ UNCHANGED sessionVars
    /\ UNCHANGED parserVars

SpecMatch ==
    MatchInit /\ [][Match]_vars

----------------------------------------------------------------------------
(* the upload parser on its own, one line per step: the text is a free text
   made of a few lines, or the serialization of a few entries *)

UploadLines ==
    {<<"Q", ":", " ", "x">>, <<"A", ":", " ", "u">>, <<"q", ":">>, <<" ", "z">>, <<>>}

EntryQuestions ==
    {<<"x">>, <<"x", " ">>, <<"Q", ":", " ", "y">>}

EntryAnswers ==
    {<<"u">>, <<"u", "\n", "v">>, <<"A", ":", " ", "w">>}

ParseInit ==
    /\ \/ /\ entries = <<>>
          /\ raw \in {<<>>} \cup {join(<<"\n">>, ls) : ls \in SeqsUpTo(UploadLines, MaxLines)}
       \/ /\ entries \in SeqsUpTo(EntryQuestions \X EntryAnswers, MaxEntries)
          /\ raw = serialize(entries)
    /\ lines = <<>>
    /\ k = 0
    /\ pairs = <<>>
    /\ cur_q = <<>>
    /\ cur_a = <<>>
    /\ mode = "None"
    /\ q_at = 0
    /\ a_at = 0
    /\ prov = <<>>
    /\ faq_list = load_faq_items
    /\ submitted_q = <<>>
    /\ load_msg = "none"
    /\ pc = "UPLOADED"
    /\ NoRoute

\* lines 114-117
SplitLines ==
    /\ pc = "UPLOADED"
    /\ lines' = splitlines(raw)
    /\ pc' = "PARSE"
    /\ UNCHANGED <<raw, k, pairs, cur_q, cur_a, mode, q_at, a_at, prov, entries>>
    /\ UNCHANGED <<q, best_answer, score, context_text, llm_ans, calls, call_args,
                   call_outcome, banner, displayed, escalate>>
    /\ UNCHANGED sessionVars

\* lines 118-133, for the line k + 1
ParseLine ==
    /\ pc = "PARSE"
    /\ k < Len(lines)
    /\ LET st == [pairs |-> pairs, cur_q |-> cur_q, cur_a |-> cur_a, mode |-> mode]
           nx == parse_line(st, lines[k + 1])
           flushed == Len(nx.pairs) > Len(pairs)
       IN  /\ pairs' = nx.pairs
           /\ cur_q' = nx.cur_q
           /\ cur_a' = nx.cur_a
           /\ mode' = nx.mode
           /\ prov' = IF flushed THEN Append(prov, <<q_at, a_at>>) ELSE prov
           /\ q_at' = IF is_q_line(lines[k + 1]) THEN k + 1 ELSE q_at
           /\ a_at' = IF is_a_line(lines[k + 1]) THEN k + 1
                      ELSE IF flushed THEN 0 ELSE a_at
    /\ k' = k + 1
    /\ UNCHANGED <<raw, lines, entries, pc>>
    /\ UNCHANGED <<q, best_answer, score, context_text, llm_ans, calls, call_args,
                   call_outcome, banner, displayed, escalate>>
    /\ UNCHANGED sessionVars

\* lines 134-140
ParseEnd ==
    /\ pc = "PARSE"
    /\ k = Len(lines)
    /\ LET st == [pairs |-> pairs, cur_q |-> cur_q, cur_a |-> cur_a, mode |-> mode]
       IN  /\ pairs' = parse_end(st)
           /\ prov' = IF Len(parse_end(st)) > Len(pairs)
                      THEN Append(prov, <<q_at, a_at>>) ELSE prov
           /\ faq_list' = commit_load(faq_list, parse_end(st))
           /\ load_msg' = IF parse_end(st) # <<>> THEN "success" ELSE "error"
    /\ pc' = "PARSED"
    /\ UNCHANGED <<raw, lines, k, cur_q, cur_a, mode, q_at, a_at, entries>>
    /\ UNCHANGED <<q, best_answer, score, context_text, llm_ans, calls, call_args,
                   call_outcome, banner, displayed, escalate>>
    /\ UNCHANGED submitted_q

ParseNext ==
    \/ SplitLines
    \/ ParseLine
    \/ ParseEnd

SpecParse ==
    ParseInit /\ [][ParseNext]_vars

----------------------------------------------------------------------------
(* properties *)

\* a occurs in b as a contiguous run of characters
Infix(a, b) ==
    \E i \in 1..(Len(b) + 1) : \E j \in (i - 1)..Len(b) : SubSeq(b, i, j) = a

\* lowercased, leading and trailing whitespace removed
Norm(s) ==
    strip(lower(s))

\* the "Q: <q>\nA: <a>" blocks of the entries 1..n of K, newline-joined
RECURSIVE Blocks(_, _)
Blocks(K, n) ==
    IF n = 0 THEN <<>>
    ELSE (IF n = 1 THEN <<>> ELSE Blocks(K, n - 1) \o <<"\n">>)
         \o <<"Q", ":", " ">> \o K[n][1] \o <<"\n", "A", ":", " ">> \o K[n][2]

QueryWords ==
    {<<"b", "r", "o", "k", "e", "n">>, <<"n", "o", "t", " ", "w", "o", "r", "k", "i", "n", "g">>, <<"u", "r", "g", "e", "n", "t">>, <<"c", "a", "n", "'", "t">>, <<"c", "a", "n", "n", "o", "t">>, <<"f", "a", "i", "l", "e", "d">>, <<"e", "r", "r", "o", "r">>}

AnswerWords ==
    {<<"i", "'", "m", " ", "n", "o", "t", " ", "s", "u", "r", "e">>, <<"i", " ", "d", "o", " ", "n", "o", "t", " ", "k", "n", "o", "w">>, <<"i", " ", "m", "a", "y", " ", "b", "e", " ", "w", "r", "o", "n", "g">>, <<"p", "l", "e", "a", "s", "e", " ", "c", "o", "n", "t", "a", "c", "t">>, <<"e", "s", "c", "a", "l", "a", "t", "e">>}

WordHit(words, text) ==
    \E w \in words : Infix(w, lower(text))

\* C1: whenever the matcher's score is >= 0.6, the run makes no call to the
\* generation collaborator, the displayed answer is exactly the matcher's answer
\* for the query, and the source is FAQ.
C1_FastPath ==
    (pc \in {"FAST_ANSWER", "DONE"} /\ score[1] * 10 >= 6 * score[2])
        => /\ calls = 0
           /\ call_args = <<>>
           /\ pc = "DONE" => /\ displayed = <<faq_match(q, faq_list).answer>>
                             /\ Source = "FAQ"

C1_Witness ==
    /\ pc = "DONE"
    /\ score[1] * 10 >= 6 * score[2]
    /\ displayed = <<best_answer>>
    /\ best_answer # <<>>
    /\ Source = "FAQ"

\* C2: whenever the matcher's score is < 0.6, the generation collaborator is
\* invoked exactly once for the query, with the query and the context made of the
\* "Q: <q>\nA: <a>" blocks of the first min(10, |KB|) entries in knowledge-base
\* order; no second call follows.
C2_SlowPath ==
    /\ calls <= 1
    /\ (pc = "DONE" /\ score[1] * 10 < 6 * score[2])
           => /\ calls = 1
              /\ call_args =
                     << <<strip(submitted_q[1]),
                          Blocks(faq_list, IF Len(faq_list) < 10 THEN Len(faq_list) ELSE 10)>> >>

C2_Witness ==
    /\ pc = "DONE"
    /\ score[1] * 10 < 6 * score[2]
    /\ calls = 1
    /\ Len(faq_list) > 10

\* C3: on the slow path (score < 0.6, the call having succeeded or returned an
\* "ERROR:" string) escalate is true exactly when the lowercased query contains a
\* query keyword or the lowercased answer contains an answer keyword; on the fast
\* path (score >= 0.6) escalate is false whatever the query contains.
C3_Escalation ==
    pc = "DONE"
        => IF score[1] * 10 >= 6 * score[2]
           THEN escalate = FALSE
           ELSE escalate = (WordHit(QueryWords, q) \/ WordHit(AnswerWords, displayed[1]))

C3_Witness ==
    /\ pc = "DONE"
    /\ score[1] * 10 < 6 * score[2]
    /\ Infix(<<"U", "R", "G", "E", "N", "T">>, q)
    /\ ~WordHit(AnswerWords, displayed[1])
    /\ escalate

\* C4 as stated: a query equal to the question of an entry e of the knowledge
\* base, at any position, yields score 0.99 and e's own answer.
C4_OwnAnswer ==
    pc = "MATCHED"
        => \A i \in 1..Len(faq_list) :
               submitted_q[1] = faq_list[i][1]
                   => score = <<99, 100>> /\ best_answer = faq_list[i][2]

\* entry j is in the substring relation with the query, as the code tests it
Related(j) ==
    \/ Infix(Norm(submitted_q[1]), lower(faq_list[j][1]))
    \/ Infix(lower(faq_list[j][1]), Norm(submitted_q[1]))

\* C4 amended: a query equal to the question of an entry e yields score 0.99 and
\* the answer of the first entry whose lowercased question contains, or is
\* contained in, the normalized query: an entry at or before e.
C4_FirstRelatedAnswer ==
    pc = "MATCHED"
        => \A i \in 1..Len(faq_list) :
               submitted_q[1] = faq_list[i][1]
                   => /\ score = <<99, 100>>
                      /\ \E j \in 1..i :
                             /\ Related(j)
                             /\ \A h \in 1..(j - 1) : ~Related(h)
                             /\ best_answer = faq_list[j][2]

C4_Witness ==
    /\ pc = "MATCHED"
    /\ Len(faq_list) = 2
    /\ submitted_q[1] = faq_list[2][1]
    /\ submitted_q[1] # faq_list[1][1]
    /\ score = <<99, 100>>
    /\ best_answer = faq_list[1][2]
    /\ best_answer # faq_list[2][2]

\* C5 as stated: the score of faq_match lies in [0, 0.99].
C5_ScoreAtMost099 ==
    pc = "MATCHED" => score[1] >= 0 /\ score[2] > 0 /\ score[1] * 100 <= 99 * score[2]

\* C5 amended: the score of faq_match lies in [0, 1]; the token-overlap branch
\* yields 1.0 when every query token occurs in an entry question that is in no
\* substring relation with the query.
C5_ScoreAtMostOne ==
    pc = "MATCHED" => score[1] >= 0 /\ score[2] > 0 /\ score[1] <= score[2]

C5_Witness ==
    /\ pc = "MATCHED"
    /\ score = <<1, 1>>
    /\ \A j \in 1..Len(faq_list) : ~Related(j)

\* the serialized entries meet the stated condition: questions and answers are
\* non-empty and no line of an answer starts with Q: or A:
RoundTripInput ==
    /\ entries # <<>>
    /\ \A i \in 1..Len(entries) :
           /\ entries[i][1] # <<>>
           /\ entries[i][2] # <<>>
           /\ \A n \in 1..Len(splitlines(entries[i][2])) :
                  /\ ~startswith(Norm(splitlines(entries[i][2])[n]), <<"q", ":">>)
                  /\ ~startswith(Norm(splitlines(entries[i][2])[n]), <<"a", ":">>)

\* every question and answer is one line without leading or trailing whitespace
OneStrippedLine ==
    \A i \in 1..Len(entries) : \A c \in 1..2 :
        /\ strip(entries[i][c]) = entries[i][c]
        /\ \A n \in 1..Len(entries[i][c]) : entries[i][c][n] \notin LineBreaks

\* C6 as stated: parsing the serialization of entries with non-empty questions and
\* answers, and no Q:/A: line start inside an answer, gives the same pairs back.
C6_RoundTrip ==
    (pc = "PARSED" /\ RoundTripInput) => pairs = entries

\* C6 amended: the round trip holds when, in addition, every question and every
\* answer is a single line without leading or trailing whitespace.
C6_RoundTripOneLine ==
    (pc = "PARSED" /\ RoundTripInput /\ OneStrippedLine) => pairs = entries

C6_Witness ==
    /\ pc = "PARSED"
    /\ RoundTripInput
    /\ OneStrippedLine
    /\ Len(entries) = 2
    /\ pairs = entries

\* C7: a load that produces no valid pair shows the error and leaves the
\* knowledge base as it was; a load never stores an empty knowledge base.
C7_FailedLoad ==
    [][/\ load_msg' = "error" => faq_list' = faq_list
       /\ faq_list' # <<>>]_vars

C7_Witness ==
    /\ load_msg = "error"
    /\ faq_list # load_faq_items
    /\ faq_list # <<>>

NormRelated(j) ==
    \/ Infix(Norm(submitted_q[1]), Norm(faq_list[j][1]))
    \/ Infix(Norm(faq_list[j][1]), Norm(submitted_q[1]))

\* C9: with the query and each entry question lowercased and stripped, faq_match
\* returns 0.99 and the answer of the first entry whose normalized question
\* contains the normalized query or is contained in it.
C9_NormalizedShortCircuit ==
    pc = "MATCHED"
        => \A j \in 1..Len(faq_list) :
               (NormRelated(j) /\ \A h \in 1..(j - 1) : ~NormRelated(h))
                   => score = <<99, 100>> /\ best_answer = faq_list[j][2]

\* C10: every pair the parser emits takes its answer from an A: line that comes
\* after the pair's own Q: line.
C10_AnswerAfterQuestion ==
    \A i \in 1..Len(prov) : prov[i][1] < prov[i][2]

====
